---------------------------- MODULE Spec2Model ----------------------------
(***************************************************************************)
(* A model of mmocr_sam_inpainting_app.py: the two Gradio handlers         *)
(* run_mmocr_sam (Stage A: detect + segment) and run_downstream (Stage B:  *)
(* inpaint the selected region), the Gradio wiring between them, and the   *)
(* process-wide objects they share (sam_predictor, pyplot, torch's default *)
(* generator).                                                             *)
(*                                                                         *)
(* Spec      the interaction surface used by one session, one handler at a *)
(*           time.                                                         *)
(* ConcSpec  two run_mmocr_sam invocations running in Gradio worker        *)
(*           threads, interleaved statement by statement.                  *)
(***************************************************************************)
EXTENDS Integers, Sequences, FiniteSets, TLC

(***************************************************************************)
(* Bounds of the model.                                                    *)
(***************************************************************************)
\* Most text regions the detector reports for one image.
MaxRegions == 2
\* Most draws from torch's default generator that the model follows.
MaxDraws == 3

(***************************************************************************)
(* The generator's working resolution, (512, 512) in the source.  The      *)
(* model keeps the role of the number (masks are resized to it, the        *)
(* generated image has it, images may be smaller or larger than it) at a   *)
(* size TLC can enumerate.                                                 *)
(***************************************************************************)
WorkSize == 2

(***************************************************************************)
(* Python values.  Every value carries its type: t is the type's name and  *)
(* x the payload.  A dict is the sequence of its <<key, value>> pairs in   *)
(* insertion order, a float is <<integer part, fraction digits>>.          *)
(***************************************************************************)
PyBool(b) == [t |-> "bool", x |-> b]
PyInt(n) == [t |-> "int", x |-> n]
PyFloat(n) == [t |-> "float", x |-> <<n, <<0>> >>]
PyStr(s) == [t |-> "str", x |-> s]
PyList(items) == [t |-> "list", x |-> items]
PyDict(pairs) == [t |-> "dict", x |-> pairs]
\* None: no image uploaded, no output shown.
None == [t |-> "NoneType", x |-> 0]

(***************************************************************************)
(* Text is a sequence of tokens: a digit, a punctuation mark, a keyword or *)
(* a quoted string.  Python writes ", " and ": " with a space, which the   *)
(* tokens leave out.                                                       *)
(***************************************************************************)
DigitChars == <<"0", "1", "2", "3", "4", "5", "6", "7", "8", "9">>

DigitSet == {DigitChars[k] : k \in 1..10}

DigitValue(c) == (CHOOSE k \in 1..10 : DigitChars[k] = c) - 1

RECURSIVE FormatInt(_)
\* str(int): the decimal digits, most significant first.
FormatInt(n) ==
    IF n < 10 THEN <<DigitChars[n + 1]>>
    ELSE FormatInt(n \div 10) \o <<DigitChars[(n % 10) + 1]>>

\* repr(float) of a finite float: integer part, ".", fraction digits.
FormatFloat(f) ==
    FormatInt(f[1]) \o <<".">> \o [k \in 1..Len(f[2]) |-> DigitChars[f[2][k] + 1]]

\* repr(str): the string in single quotes, one token.
Quote(s) ==
    CASE s = "mask" -> "'mask'"
      [] s = "polygon" -> "'polygon'"
      [] OTHER -> "'?'"

\* A serializer that writes booleans the JSON way.
ReprBoolLower(b) == IF b THEN <<"true">> ELSE <<"false">>

\* repr(bool)
ReprBool(b) == IF b THEN <<"True">> ELSE <<"False">>

RECURSIVE Repr(_), ReprItems(_, _), ReprPairs(_, _)
\* repr(value), as str(dict) and Gradio's str(value) for a Textbox produce it.
Repr(v) ==
    CASE v.t = "bool" -> ReprBool(v.x)
      [] v.t = "int" -> FormatInt(v.x)
      [] v.t = "float" -> FormatFloat(v.x)
      [] v.t = "str" -> <<Quote(v.x)>>
      [] v.t = "list" -> <<"[">> \o ReprItems(v.x, 1) \o <<"]">>
      [] v.t = "dict" -> <<"{">> \o ReprPairs(v.x, 1) \o <<"}">>
      [] OTHER -> <<"None">>

ReprItems(items, k) ==
    IF k > Len(items) THEN <<>>
    ELSE Repr(items[k])
         \o (IF k < Len(items) THEN <<",">> ELSE <<>>)
         \o ReprItems(items, k + 1)

ReprPairs(pairs, k) ==
    IF k > Len(pairs) THEN <<>>
    ELSE Repr(pairs[k][1]) \o <<":">> \o Repr(pairs[k][2])
         \o (IF k < Len(pairs) THEN <<",">> ELSE <<>>)
         \o ReprPairs(pairs, k + 1)

(***************************************************************************)
(* eval(text): Python's expression evaluator, on the part of the syntax    *)
(* the handlers meet: literals, list and dict displays, and a call (the    *)
(* token SystemCall), which runs when the expression is evaluated.         *)
(***************************************************************************)
\* An expression with a side effect, as any client of the endpoint can send.
SystemCall == "__import__('os').system('id')"

\* What a statement does: it raises exc, or (exc = "") it yields v.
Raise(e) == [exc |-> e, v |-> None]

Return(v) == [exc |-> "", v |-> v]

ParseFail == [ok |-> FALSE, v |-> None, i |-> 0]

ParseOk(v, i) == [ok |-> TRUE, v |-> v, i |-> i]

RECURSIVE ParseDigits(_, _, _)
ParseDigits(s, i, acc) ==
    IF i <= Len(s) /\ s[i] \in DigitSet
    THEN ParseDigits(s, i + 1, Append(acc, DigitValue(s[i])))
    ELSE [d |-> acc, i |-> i]

RECURSIVE IntOfDigits(_)
IntOfDigits(ds) ==
    IF ds = <<>> THEN 0
    ELSE IntOfDigits(SubSeq(ds, 1, Len(ds) - 1)) * 10 + ds[Len(ds)]

RECURSIVE StripZeros(_)
\* A float's fraction digits without trailing zeros, one digit at least.
StripZeros(ds) ==
    IF Len(ds) = 0 THEN <<0>>
    ELSE IF Len(ds) > 1 /\ ds[Len(ds)] = 0
         THEN StripZeros(SubSeq(ds, 1, Len(ds) - 1))
         ELSE ds

\* An int literal (no leading zero) or a float literal.
ParseNumber(s, i) ==
    LET a == ParseDigits(s, i, <<>>)
    IN IF a.i <= Len(s) /\ s[a.i] = "."
       THEN LET b == ParseDigits(s, a.i + 1, <<>>)
            IN ParseOk([t |-> "float", x |-> <<IntOfDigits(a.d), StripZeros(b.d)>>], b.i)
       ELSE IF Len(a.d) > 1 /\ a.d[1] = 0
            THEN ParseFail
            ELSE ParseOk(PyInt(IntOfDigits(a.d)), a.i)

\* dict[key] = value while a display is built: a repeated key keeps its place.
SetKey(pairs, key, val) ==
    IF \E k \in 1..Len(pairs) : pairs[k][1].t = key.t /\ pairs[k][1].x = key.x
    THEN [k \in 1..Len(pairs) |->
             IF pairs[k][1].t = key.t /\ pairs[k][1].x = key.x
             THEN <<key, val>> ELSE pairs[k]]
    ELSE Append(pairs, <<key, val>>)

RECURSIVE ParseValue(_, _), ParseItems(_, _, _), ParsePairs(_, _, _)
ParseValue(s, i) ==
    IF i > Len(s) THEN ParseFail
    ELSE CASE s[i] = "True" -> ParseOk(PyBool(TRUE), i + 1)
           [] s[i] = "False" -> ParseOk(PyBool(FALSE), i + 1)
           [] s[i] = "'mask'" -> ParseOk(PyStr("mask"), i + 1)
           [] s[i] = "'polygon'" -> ParseOk(PyStr("polygon"), i + 1)
           [] s[i] \in DigitSet -> ParseNumber(s, i)
           [] s[i] = "[" -> ParseItems(s, i + 1, <<>>)
           [] s[i] = "{" -> ParsePairs(s, i + 1, <<>>)
           [] s[i] = SystemCall -> ParseOk(PyInt(0), i + 1)
           [] OTHER -> ParseFail

ParseItems(s, i, acc) ==
    IF i > Len(s) THEN ParseFail
    ELSE IF s[i] = "]" THEN ParseOk(PyList(acc), i + 1)
    ELSE LET e == ParseValue(s, i)
         IN IF ~e.ok \/ e.i > Len(s) THEN ParseFail
            ELSE IF s[e.i] = "," THEN ParseItems(s, e.i + 1, Append(acc, e.v))
            ELSE IF s[e.i] = "]" THEN ParseOk(PyList(Append(acc, e.v)), e.i + 1)
            ELSE ParseFail

ParsePairs(s, i, acc) ==
    IF i > Len(s) THEN ParseFail
    ELSE IF s[i] = "}" THEN ParseOk(PyDict(acc), i + 1)
    ELSE LET k == ParseValue(s, i)
         IN IF ~k.ok \/ k.i > Len(s) \/ s[k.i] # ":" THEN ParseFail
            ELSE LET e == ParseValue(s, k.i + 1)
                 IN IF ~e.ok \/ e.i > Len(s) THEN ParseFail
                    ELSE IF s[e.i] = ","
                         THEN ParsePairs(s, e.i + 1, SetKey(acc, k.v, e.v))
                    ELSE IF s[e.i] = "}"
                         THEN ParseOk(PyDict(SetKey(acc, k.v, e.v)), e.i + 1)
                    ELSE ParseFail

\* eval(text): SyntaxError when the text is no expression; otherwise the
\* expression is evaluated, and every call in it is made.
Eval(s) ==
    LET r == ParseValue(s, 1)
    IN IF r.ok /\ r.i = Len(s) + 1
       THEN [exc |-> "", v |-> r.v,
             executed |-> \E k \in 1..Len(s) : s[k] = SystemCall]
       ELSE [exc |-> "SyntaxError", v |-> None, executed |-> FALSE]

\* int(text): digits only, else ValueError.
IntOfText(s) ==
    LET a == ParseDigits(s, 1, <<>>)
    IN IF Len(s) > 0 /\ a.i = Len(s) + 1
       THEN Return(PyInt(IntOfDigits(a.d)))
       ELSE Raise("ValueError")

\* A lookup that falls back to the first entry when the key is missing.
GetItemOrFirst(obj, key) ==
    CASE obj.t = "dict" ->
           IF \E k \in 1..Len(obj.x) : obj.x[k][1].t = key.t /\ obj.x[k][1].x = key.x
           THEN Return(obj.x[CHOOSE k \in 1..Len(obj.x) :
                                 obj.x[k][1].t = key.t /\ obj.x[k][1].x = key.x][2])
           ELSE IF Len(obj.x) > 0 THEN Return(obj.x[1][2])
           ELSE Raise("KeyError")
      [] obj.t = "list" ->
           IF key.t # "int" THEN Raise("TypeError")
           ELSE IF key.x < Len(obj.x) THEN Return(obj.x[key.x + 1])
           ELSE Raise("IndexError")
      [] OTHER -> Raise("TypeError")

\* obj[key]
GetItem(obj, key) ==
    CASE obj.t = "dict" ->
           IF \E k \in 1..Len(obj.x) : obj.x[k][1].t = key.t /\ obj.x[k][1].x = key.x
           THEN Return(obj.x[CHOOSE k \in 1..Len(obj.x) :
                                 obj.x[k][1].t = key.t /\ obj.x[k][1].x = key.x][2])
           ELSE Raise("KeyError")
      [] obj.t = "list" ->
           IF key.t # "int" THEN Raise("TypeError")
           ELSE IF key.x < Len(obj.x) THEN Return(obj.x[key.x + 1])
           ELSE Raise("IndexError")
      [] OTHER -> Raise("TypeError")

(***************************************************************************)
(* Images.  A pixel grid is a sequence of rows, a row a sequence of        *)
(* pixels, a pixel its three 8-bit channels.  An image is the grid and     *)
(* the overlays (marks) drawn on it; an uploaded image has none.           *)
(***************************************************************************)
Rows(g) == Len(g)

Cols(g) == IF Len(g) = 0 THEN 0 ELSE Len(g[1])

Img(pix, marks) == [t |-> "ndarray", x |-> [pix |-> pix, marks |-> marks]]

\* <<height, width>> of the images a user uploads: smaller than, equal to and
\* wider than the working resolution.
Dims == {<<1, 1>>, <<2, 2>>, <<1, 3>>}

Picture(h, w) ==
    Img([y \in 1..h |-> [x \in 1..w |->
            IF (x + y) % 2 = 0 THEN <<10, 100, 200>> ELSE <<250, 0, 60>>]], <<>>)

Images == {Picture(d[1], d[2]) : d \in Dims}

\* cv2.cvtColor(img, COLOR_BGR2RGB) and COLOR_RGB2BGR: the channels reversed.
CvtColor(g) ==
    [y \in 1..Rows(g) |-> [x \in 1..Cols(g) |->
        <<g[y][x][3], g[y][x][2], g[y][x][1]>>]]

\* The source index (1-based) that output index o samples when a line of inN
\* samples is resized to outN, nearest neighbour: floor((o - 1/2) * inN / outN).
NearestIndex(o, inN, outN) == (((2 * (o - 1) + 1) * inN) \div (2 * outN)) + 1

\* Image.resize((w, h)).  Sampled at the nearest source pixel, the filter that
\* spreads a value the least; an interpolating filter mixes neighbours as well.
Resize(g, w, h) ==
    [y \in 1..h |-> [x \in 1..w |->
        g[NearestIndex(y, Rows(g), h)][NearestIndex(x, Cols(g), w)]]]

\* uint8 arithmetic of numpy: the result modulo 256.
MulU8(a, b) == (a * b) % 256

\* An addition that saturates at 255 instead of wrapping.
AddSaturating(a, b) == IF a + b > 255 THEN 255 ELSE a + b

AddU8(a, b) == (a + b) % 256

MulImages(a, b) ==
    [y \in 1..Rows(a) |-> [x \in 1..Cols(a) |->
        [c \in 1..3 |-> MulU8(a[y][x][c], b[y][x][c])]]]

AddImages(a, b) ==
    [y \in 1..Rows(a) |-> [x \in 1..Cols(a) |->
        [c \in 1..3 |-> AddU8(a[y][x][c], b[y][x][c])]]]

(***************************************************************************)
(* MMOCR: the detector and recogniser.  Its answer for an image is not     *)
(* decided by this program: a detection is any number of regions up to     *)
(* MaxRegions, region k a box around one column of the image, counted from *)
(* the right; the recogniser returns one text per crop and skips a crop    *)
(* that is empty (here the first, if any), so rec_texts may be one shorter *)
(* than det_polygons.                                                      *)
(***************************************************************************)
Min(a, b) == IF a < b THEN a ELSE b

WordList == <<"HELLO", "WORLD">>

Words(n) == [k \in 1..n |-> WordList[((k - 1) % 2) + 1]]

\* s without its d-th element (d = 0: s itself).
DropAt(s, d) ==
    IF d = 0 THEN s ELSE SubSeq(s, 1, d - 1) \o SubSeq(s, d + 1, Len(s))

\* A polygon as MMOCR returns it: [x1, y1, x2, y2, ...].
PolyAt(pix, k) ==
    LET w == Cols(pix)
        h == Rows(pix)
        x0 == (w - 1) - ((k - 1) % w)
    IN <<x0, 0, x0 + 1, 0, x0 + 1, h, x0, h>>

Detections(img) ==
    UNION {{[det_polygons |-> [k \in 1..n |-> PolyAt(img.x.pix, k)],
             rec_texts |-> DropAt(Words(n), d)] : d \in 0..Min(n, 1)} : n \in 0..MaxRegions}

SetMin(S) == CHOOSE a \in S : \A b \in S : a <= b

SetMax(S) == CHOOSE a \in S : \A b \in S : a >= b

\* mmocr.utils.poly2bbox: [min x, min y, max x, max y].
Poly2Bbox(poly) ==
    LET xs == {poly[2 * k - 1] : k \in 1..(Len(poly) \div 2)}
        ys == {poly[2 * k] : k \in 1..(Len(poly) \div 2)}
    IN <<SetMin(xs), SetMin(ys), SetMax(xs), SetMax(ys)>>

(***************************************************************************)
(* SAM.  sam_predictor keeps the image of the last set_image; predict_torch*)
(* answers one boolean mask per box, of that image's size.  Which pixels a *)
(* mask holds is the model's choice, one for all boxes of a call: the      *)
(* box's footprint ("box") or the whole image ("all").                     *)
(***************************************************************************)
SamChoices == {"box", "all"}

MaskFor(pix, box, choice) ==
    [y \in 1..Rows(pix) |-> [x \in 1..Cols(pix) |->
        \/ choice = "all"
        \/ /\ box[1] <= x - 1 /\ x - 1 < box[3]
           /\ box[2] <= y - 1 /\ y - 1 < box[4]]]

\* sam_predictor.predict_torch(boxes=...): masks against the predictor's image.
PredictTorch(sam, boxes, choice) ==
    [k \in 1..Len(boxes) |-> MaskFor(sam.x.pix, boxes[k], choice)]

(***************************************************************************)
(* run_mmocr_sam, lines 93-119: the table, the summary and the overlays.   *)
(***************************************************************************)
\* np.array(polygon).reshape(-1, 2), closed with its first point.
ClosedPolygon(poly) ==
    LET pts == [k \in 1..(Len(poly) \div 2) |-> <<poly[2 * k - 1], poly[2 * k]>>]
    IN pts \o SubSeq(pts, 1, 1)

\* polygon.tolist()
PolygonToList(pts) ==
    PyList([k \in 1..Len(pts) |-> PyList(<<PyFloat(pts[k][1]), PyFloat(pts[k][2])>>)])

\* mask.cpu().numpy().tolist() of a (1, H, W) boolean tensor.
MaskToList(m) ==
    PyList(<<PyList([y \in 1..Rows(m) |->
                 PyList([x \in 1..Cols(m) |-> PyBool(m[y][x])])])>>)

\* zip(masks, rec_texts, det_polygons, det_bboxes) stops at the shortest.
ZipLen(masks, texts, polys, boxes) ==
    Min(Min(Len(masks), Len(texts)), Min(Len(polys), Len(boxes)))

RECURSIVE OutputStr(_, _)
\* output_str: f'{idx}:{rec_text}' + '\n' for each zipped region.
OutputStr(texts, m) ==
    IF m = 0 THEN <<>>
    ELSE OutputStr(texts, m - 1) \o FormatInt(m - 1) \o <<":", texts[m], "\n">>

(***************************************************************************)
(* pyplot.  Its figures are process-wide: figs is the sequence of open     *)
(* figures, the last one the current figure, each with the artists drawn   *)
(* on it.  An artist records the invocation that drew it (by).             *)
(***************************************************************************)
ImageArt(by, pix) ==
    [kind |-> "image", by |-> by, pix |-> pix, idx |-> 0, text |-> "",
     mask |-> <<>>, polygon |-> <<>>, at |-> <<>>]

\* show_mask, plt.plot and plt.text of one loop iteration (lines 97-110).
RegionArt(by, idx, text, mask, polygon, bbox) ==
    [kind |-> "region", by |-> by, pix |-> <<>>, idx |-> idx, text |-> text,
     mask |-> mask, polygon |-> polygon, at |-> <<bbox[1], bbox[2]>>]

\* plt.figure(): a new figure, which becomes the current one.
PltFigure(figs) == Append(figs, <<>>)

\* plt.gcf() / plt.gca(): the current figure; one is created when none is open.
PltGcf(figs) == IF figs = <<>> THEN PltFigure(figs) ELSE figs

\* plt.imshow, plt.plot, plt.text, ax.imshow: draw on the current figure.
PltDraw(figs, art) ==
    LET f == PltGcf(figs)
    IN [f EXCEPT ![Len(f)] = Append(@, art)]

\* plt.close(): closes the current figure.
PltClose(figs) == IF figs = <<>> THEN figs ELSE SubSeq(figs, 1, Len(figs) - 1)

RECURSIVE LastImage(_)
\* The image a figure shows: that of its last imshow, none on an empty canvas.
LastImage(arts) ==
    IF arts = <<>> THEN <<>>
    ELSE IF arts[Len(arts)].kind = "image" THEN arts[Len(arts)].pix
    ELSE LastImage(SubSeq(arts, 1, Len(arts) - 1))

\* np.array(plt.gcf().canvas.renderer._renderer), then COLOR_RGB2BGR: the
\* current figure's image with every overlay drawn on that figure.
Canvas(figs) ==
    LET arts == PltGcf(figs)[Len(PltGcf(figs))]
    IN Img(CvtColor(LastImage(arts)), SelectSeq(arts, LAMBDA a : a.kind = "region"))

\* outputs[idx] = dict(mask=mask.cpu().numpy().tolist(), polygon=polygon.tolist())
TableEntry(idx, mask, closed) ==
    <<PyInt(idx),
      PyDict(<< <<PyStr("mask"), MaskToList(mask)>>,
                <<PyStr("polygon"), PolygonToList(closed)>> >>)>>

RECURSIVE DrawRegions(_, _, _, _, _, _)
\* The figures after the loop's first m iterations.
DrawRegions(figs, by, det, boxes, masks, m) ==
    IF m = 0 THEN figs
    ELSE PltDraw(DrawRegions(figs, by, det, boxes, masks, m - 1),
                 RegionArt(by, m - 1, det.rec_texts[m], masks[m],
                           ClosedPolygon(det.det_polygons[m]), boxes[m]))

\* Lines 87-119, run without interruption, for a detection and the masks SAM
\* answered: the preview, the summary, the table, and pyplot's figures after.
BuildOutputs(img, det, boxes, masks, figs, by) ==
    LET m == ZipLen(masks, det.rec_texts, det.det_polygons, boxes)
        drawn == DrawRegions(PltDraw(PltFigure(figs), ImageArt(by, CvtColor(img.x.pix))),
                             by, det, boxes, masks, m)
    IN [preview |-> Canvas(drawn),
        output_str |-> OutputStr(det.rec_texts, m),
        outputs |-> PyDict([k \in 1..m |->
                        TableEntry(k - 1, masks[k], ClosedPolygon(det.det_polygons[k]))]),
        figs |-> PltClose(drawn)]

(***************************************************************************)
(* torch's default generator: the seed it was given (seeded = FALSE until  *)
(* manual_seed is called) and the number of draws since.                   *)
(***************************************************************************)
DefaultGenerator == [seeded |-> FALSE, seed |-> 0, draws |-> 0]

\* A call that leaves the generator as it is.
ManualSeedKept(gen, s) == gen

\* torch.manual_seed(s)
ManualSeed(gen, s) == [seeded |-> TRUE, seed |-> s, draws |-> 0]

\* The noise the next draw yields, and the generator after it.
Noise(gen) == gen.seed + gen.draws + (IF gen.seeded THEN 0 ELSE 1)

Draw(gen) == [gen EXCEPT !.draws = @ + 1]

(***************************************************************************)
(* The diffusion pipeline: a WorkSize x WorkSize image decided by the      *)
(* prompt, the initial noise and the conditioning image, by a fixed but    *)
(* arbitrary rule.                                                         *)
(***************************************************************************)
Prompts == {"graffiti"}

PromptCode(p) == IF p = "graffiti" THEN 0 ELSE 1

RECURSIVE SumSeq(_)
SumSeq(s) == IF s = <<>> THEN 0 ELSE s[1] + SumSeq(Tail(s))

CondSum(cond) == SumSeq([y \in 1..Rows(cond) |-> SumSeq([x \in 1..Cols(cond) |-> cond[y][x][1]])])

Pipe(p, noise, cond) ==
    [y \in 1..WorkSize |-> [x \in 1..WorkSize |-> [c \in 1..3 |->
        ((PromptCode(p) + noise + CondSum(cond) + x + y + c) % 3) * 100]]]

(***************************************************************************)
(* run_downstream                                                          *)
(***************************************************************************)
\* A list of equally long lists of scalars, as np.array needs for a 2-D array.
IsGridList(v) ==
    /\ v.t = "list"
    /\ Len(v.x) > 0
    /\ \A y \in 1..Len(v.x) :
          /\ v.x[y].t = "list"
          /\ Len(v.x[y].x) = Len(v.x[1].x)
          /\ Len(v.x[y].x) > 0
          /\ \A x \in 1..Len(v.x[y].x) : v.x[y].x[x].t \in {"bool", "int", "float"}

\* value > 0.5
OverHalf(v) ==
    CASE v.t = "bool" -> v.x
      [] v.t = "int" -> v.x >= 1
      [] OTHER -> v.x[1] >= 1 \/ v.x[2][1] > 5 \/ (v.x[2][1] = 5 /\ Len(v.x[2]) > 1)

\* (np.array(mask) > 0.5).astype(np.uint8)
Binarize(v) ==
    [y \in 1..Len(v.x) |-> [x \in 1..Len(v.x[y].x) |->
        IF OverHalf(v.x[y].x[x]) THEN 1 ELSE 0]]

\* np.stack([mask, mask, mask], axis=-1)
Stack3(m) == [y \in 1..Rows(m) |-> [x \in 1..Cols(m) |-> <<m[y][x], m[y][x], m[y][x]>>]]

\* Lines 138-156 for the binary mask of line 136: the generator seeded, the
\* pipeline run on the resized mask, its result masked, resized to the image
\* and added to it.
Inpaint(img, mask, prompt_text, gen) ==
    LET rgb == CvtColor(img.x.pix)
        seeded == ManualSeed(gen, 0)
        cond == Resize(Stack3(mask), WorkSize, WorkSize)
        diff == Pipe(prompt_text, Noise(seeded), cond)
        masked == Resize(MulImages(diff, cond), Cols(rgb), Rows(rgb))
        sum == AddImages(rgb, masked)
    IN [gen |-> Draw(seeded), out |-> Img(CvtColor(sum), img.x.marks),
        diff |-> diff, patch |-> masked]

RunDownstream(img, mask_text, index_text, prompt_text, gen) ==
    LET ev == Eval(mask_text)
        ix == IntOfText(index_text)
        e1 == GetItem(ev.v, ix.v)
        e2 == GetItem(e1.v, PyStr("mask"))
        e3 == GetItem(e2.v, PyInt(0))
        start == [exc |-> "", executed |-> ev.executed, pipe_called |-> FALSE,
                  gen |-> gen, out |-> None, table |-> ev.v,
                  mask |-> <<>>, patch |-> <<>>]
    IN IF ev.exc # "" THEN [start EXCEPT !.exc = ev.exc]
       ELSE IF ix.exc # "" THEN [start EXCEPT !.exc = ix.exc]
       ELSE IF e1.exc # "" THEN [start EXCEPT !.exc = e1.exc]
       ELSE IF e2.exc # "" THEN [start EXCEPT !.exc = e2.exc]
       ELSE IF e3.exc # "" THEN [start EXCEPT !.exc = e3.exc]
       ELSE IF ~IsGridList(e3.v) THEN [start EXCEPT !.exc = "ValueError"]
       ELSE IF img.t = "NoneType" THEN [start EXCEPT !.exc = "cv2.error"]
       ELSE LET mask == Binarize(e3.v)
                r == Inpaint(img, mask, prompt_text, gen)
            IN [start EXCEPT !.pipe_called = TRUE,
                             !.gen = r.gen,
                             !.out = r.out,
                             !.mask = mask,
                             !.patch = r.patch]

(***************************************************************************)
(* State.                                                                  *)
(***************************************************************************)
VARIABLES
    input_image,    \* gr.Image 'Input Image'
    output_image,   \* gr.Image 'Output Image'
    sam_results,    \* gr.Textbox 'Detection Results'
    mask_results,   \* gr.Textbox 'Mask Results'
    text_index,     \* gr.Textbox 'Select Text Index'
    prompt,         \* gr.Textbox 'Inpainting Prompt'
    sam_image,      \* sam_predictor: the image of the last set_image
    torch_gen,      \* torch's default generator
    figs,           \* pyplot's open figures
    a_run,          \* the last run_mmocr_sam that returned
    fresh,          \* mask_results still holds what that run returned
    last,           \* the last handler call and what it did
    pc,             \* ConcSpec: where each invocation stands
    loc             \* ConcSpec: each invocation's local variables

vars ==
    <<input_image, output_image, sam_results, mask_results, text_index, prompt,
      sam_image, torch_gen, figs, a_run, fresh, last, pc, loc>>

uiVars ==
    <<input_image, output_image, sam_results, mask_results, text_index, prompt,
      a_run, fresh, last>>

\* The two invocations ConcSpec follows.
Procs == {1, 2}

\* What a user types into 'Select Text Index'.
IndexTexts == {<<"0">>, <<"1">>}

\* What a client sends as 'Mask Results' instead of Stage A's text: a cut-off
\* table, and an expression that runs a command.
UserTexts == {<<"{", "0", ":">>, <<SystemCall>>}

Idle == [op |-> "none"]

NoRun ==
    [img |-> None, det |-> [det_polygons |-> <<>>, rec_texts |-> <<>>],
     masks |-> <<>>, outputs |-> PyDict(<<>>)]

NoLoc ==
    [img |-> None, det |-> [det_polygons |-> <<>>, rec_texts |-> <<>>],
     boxes |-> <<>>, masks |-> <<>>, against |-> None, i |-> 0, preview |-> None]

Init ==
    /\ input_image = None
    /\ output_image = None
    /\ sam_results = <<>>
    /\ mask_results = <<>>
    /\ text_index = <<>>
    /\ prompt = ""
    /\ sam_image = None
    /\ torch_gen = DefaultGenerator
    /\ figs = <<>>
    /\ a_run = NoRun
    /\ fresh = FALSE
    /\ last = Idle
    /\ pc = [p \in Procs |-> "idle"]
    /\ loc = [p \in Procs |-> NoLoc]

(***************************************************************************)
(* The interaction surface (lines 161-190).                                *)
(***************************************************************************)
\* inputs=[input_image] of mmocr_sam.click
MmocrSamImage == input_image

\* A wiring that hands run_downstream the image on display.
DownstreamImageFromOutput == output_image

\* inputs=[input_image, ...] of downstream.click
DownstreamImage == input_image

\* The user uploads an image, or picks one of the examples.
Upload(img) ==
    /\ input_image' = img
    /\ last' = Idle
    /\ UNCHANGED <<output_image, sam_results, mask_results, text_index, prompt,
                   sam_image, torch_gen, figs, a_run, fresh, pc, loc>>

SetIndex(txt) ==
    /\ text_index' = txt
    /\ last' = Idle
    /\ UNCHANGED <<input_image, output_image, sam_results, mask_results, prompt,
                   sam_image, torch_gen, figs, a_run, fresh, pc, loc>>

SetPrompt(p) ==
    /\ prompt' = p
    /\ last' = Idle
    /\ UNCHANGED <<input_image, output_image, sam_results, mask_results, text_index,
                   sam_image, torch_gen, figs, a_run, fresh, pc, loc>>

\* 'Mask Results' is an input of downstream.click: its text is the client's.
EditMaskResults(txt) ==
    /\ mask_results' = txt
    /\ fresh' = FALSE
    /\ last' = Idle
    /\ UNCHANGED <<input_image, output_image, sam_results, text_index, prompt,
                   sam_image, torch_gen, figs, a_run, pc, loc>>

\* run_mmocr_sam(img), lines 71-119, run without interruption: what it returns
\* and what it leaves in sam_predictor and pyplot, for the detection MMOCR
\* answers and the masks SAM chooses.
RunMmocrSam(img, det, choice, figs0, by) ==
    LET boxes == [k \in 1..Len(det.det_polygons) |-> Poly2Bbox(det.det_polygons[k])]
        masks == PredictTorch(img, boxes, choice)
        r == BuildOutputs(img, det, boxes, masks, figs0, by)
    IN [img |-> img, det |-> det, masks |-> masks, preview |-> r.preview,
        output_str |-> r.output_str, outputs |-> r.outputs, figs |-> r.figs]

\* The handler's possible results for each image when no figure is open,
\* tabulated once.
StageAResults ==
    [img \in Images |->
        {RunMmocrSam(img, det, choice, <<>>, 0) :
            det \in Detections(img), choice \in SamChoices}]

\* 'Run MMOCR and SAM': run_mmocr_sam(input_image), its three results shown
\* in output_image, sam_results and mask_results (a Textbox shows str(value)).
ClickMmocrSam ==
    IF MmocrSamImage.t = "NoneType"
    THEN /\ last' = [op |-> "A", exc |-> "InferenceError"]
         /\ UNCHANGED <<input_image, output_image, sam_results, mask_results,
                        text_index, prompt, sam_image, torch_gen, figs, a_run,
                        fresh, pc, loc>>
    ELSE \E r \in (IF figs = <<>>
                   THEN StageAResults[MmocrSamImage]
                   ELSE {RunMmocrSam(MmocrSamImage, det, choice, figs, 0) :
                            det \in Detections(MmocrSamImage),
                            choice \in SamChoices}) :
            /\ sam_image' = r.img
            /\ figs' = r.figs
            /\ output_image' = r.preview
            /\ sam_results' = r.output_str
            /\ mask_results' = Repr(r.outputs)
            /\ a_run' = [img |-> r.img, det |-> r.det, masks |-> r.masks,
                         outputs |-> r.outputs]
            /\ fresh' = TRUE
            /\ last' = [op |-> "A", exc |-> ""]
            /\ UNCHANGED <<input_image, text_index, prompt, torch_gen, pc, loc>>

\* 'Run Downstream Tasks': run_downstream(input_image, mask_results,
\* text_index, prompt); Gradio shows the result in output_image, and shows
\* an error and leaves output_image alone when the handler raises.
ClickDownstream ==
    /\ torch_gen.draws < MaxDraws
    /\ LET r == RunDownstream(DownstreamImage, mask_results, text_index, prompt,
                              torch_gen)
       IN /\ output_image' = IF r.exc = "" THEN r.out ELSE output_image
          /\ torch_gen' = r.gen
          /\ last' = [op |-> "B", img |-> DownstreamImage,
                      gen_before |-> torch_gen, out_before |-> output_image,
                      r |-> r]
    /\ UNCHANGED <<input_image, sam_results, mask_results, text_index, prompt,
                   sam_image, figs, a_run, fresh, pc, loc>>

Next ==
    \/ \E img \in Images : Upload(img)
    \/ \E txt \in IndexTexts : SetIndex(txt)
    \/ \E p \in Prompts : SetPrompt(p)
    \/ \E txt \in UserTexts : EditMaskResults(txt)
    \/ ClickMmocrSam
    \/ ClickDownstream

Spec == Init /\ [][Next]_vars

(***************************************************************************)
(* Two invocations of run_mmocr_sam in two Gradio worker threads (Gradio   *)
(* runs a handler per request in a thread pool; demo.launch sets up no     *)
(* queue and the handlers take no lock).  Each thread runs lines 71-119 a  *)
(* statement group at a time; sam_predictor and pyplot are the process's.  *)
(* MMOCR recognises every crop here and SAM answers the box's footprint.   *)
(***************************************************************************)
ConcInit ==
    /\ input_image = None
    /\ output_image = None
    /\ sam_results = <<>>
    /\ mask_results = <<>>
    /\ text_index = <<>>
    /\ prompt = ""
    /\ sam_image = None
    /\ torch_gen = DefaultGenerator
    /\ figs = <<>>
    /\ a_run = NoRun
    /\ fresh = FALSE
    /\ last = Idle
    /\ pc = [p \in Procs |-> "detect"]
    /\ \E a \in Images : \E b \in Images \ {a} :
          loc = [p \in Procs |-> [NoLoc EXCEPT !.img = IF p = 1 THEN a ELSE b]]

\* Lines 71-77: the detection, and the boxes of its polygons.
Detect(p) ==
    /\ pc[p] = "detect"
    /\ \E det \in {d \in Detections(loc[p].img) :
                      Len(d.rec_texts) = Len(d.det_polygons)} :
          loc' = [loc EXCEPT ![p].det = det,
                             ![p].boxes = [k \in 1..Len(det.det_polygons) |->
                                              Poly2Bbox(det.det_polygons[k])]]
    /\ pc' = [pc EXCEPT ![p] = "set_image"]
    /\ UNCHANGED <<uiVars, sam_image, torch_gen, figs>>

\* Line 79: sam_predictor.set_image(img)
SetImage(p) ==
    /\ pc[p] = "set_image"
    /\ sam_image' = loc[p].img
    /\ pc' = [pc EXCEPT ![p] = "predict"]
    /\ UNCHANGED <<uiVars, torch_gen, figs, loc>>

\* Lines 80-85: sam_predictor.predict_torch(boxes=transformed_boxes)
Predict(p) ==
    /\ pc[p] = "predict"
    /\ loc' = [loc EXCEPT ![p].masks = PredictTorch(sam_image, loc[p].boxes, "box"),
                          ![p].against = sam_image]
    /\ pc' = [pc EXCEPT ![p] = "figure"]
    /\ UNCHANGED <<uiVars, sam_image, torch_gen, figs>>

\* Lines 87-89: plt.figure(); plt.axis('off')
Figure(p) ==
    /\ pc[p] = "figure"
    /\ figs' = PltFigure(figs)
    /\ pc' = [pc EXCEPT ![p] = "imshow"]
    /\ UNCHANGED <<uiVars, sam_image, torch_gen, loc>>

\* Lines 91-94: plt.imshow(img)
Imshow(p) ==
    /\ pc[p] = "imshow"
    /\ figs' = PltDraw(figs, ImageArt(p, CvtColor(loc[p].img.x.pix)))
    /\ loc' = [loc EXCEPT ![p].i = 0]
    /\ pc' = [pc EXCEPT ![p] = "loop"]
    /\ UNCHANGED <<uiVars, sam_image, torch_gen>>

\* Lines 95-113: one iteration of the loop.
Loop(p) ==
    /\ pc[p] = "loop"
    /\ loc[p].i < ZipLen(loc[p].masks, loc[p].det.rec_texts,
                         loc[p].det.det_polygons, loc[p].boxes)
    /\ LET k == loc[p].i + 1
       IN figs' = PltDraw(figs, RegionArt(p, k - 1, loc[p].det.rec_texts[k],
                                          loc[p].masks[k],
                                          ClosedPolygon(loc[p].det.det_polygons[k]),
                                          loc[p].boxes[k]))
    /\ loc' = [loc EXCEPT ![p].i = @ + 1]
    /\ UNCHANGED <<uiVars, sam_image, torch_gen, pc>>

\* Lines 114-117: plt.savefig, and the canvas of plt.gcf() read back.
Savefig(p) ==
    /\ pc[p] = "loop"
    /\ loc[p].i >= ZipLen(loc[p].masks, loc[p].det.rec_texts,
                          loc[p].det.det_polygons, loc[p].boxes)
    /\ figs' = PltGcf(figs)
    /\ loc' = [loc EXCEPT ![p].preview = Canvas(figs)]
    /\ pc' = [pc EXCEPT ![p] = "close"]
    /\ UNCHANGED <<uiVars, sam_image, torch_gen>>

\* Lines 118-119: plt.close(); return
Close(p) ==
    /\ pc[p] = "close"
    /\ figs' = PltClose(figs)
    /\ pc' = [pc EXCEPT ![p] = "done"]
    /\ UNCHANGED <<uiVars, sam_image, torch_gen, loc>>

ConcNext ==
    \E p \in Procs :
        \/ Detect(p)
        \/ SetImage(p)
        \/ Predict(p)
        \/ Figure(p)
        \/ Imshow(p)
        \/ Loop(p)
        \/ Savefig(p)
        \/ Close(p)

ConcSpec == ConcInit /\ [][ConcNext]_vars

(***************************************************************************)
(* Claims.                                                                 *)
(***************************************************************************)
\* The last handler call was a run_downstream that returned an image.
StageBDone == last.op = "B" /\ last.r.exc = ""

SameShape(mask, pix) == Rows(mask) = Rows(pix) /\ Cols(mask) = Cols(pix)

\* C1: after a successful run_downstream on a mask of the image's size, every
\* pixel outside the selected mask is the pixel of the input image.
C1_OutsideMaskUnchanged ==
    (StageBDone /\ SameShape(last.r.mask, last.img.x.pix)) =>
        \A y \in 1..Rows(last.r.mask) : \A x \in 1..Cols(last.r.mask) :
            last.r.mask[y][x] = 0 =>
                last.r.out.x.pix[y][x] = last.img.x.pix[y][x]

\* The text evaluates to a dict, and the index text names none of its keys.
IndexNotAKey(mask_text, index_text) ==
    /\ Eval(mask_text).exc = ""
    /\ Eval(mask_text).v.t = "dict"
    /\ \/ IntOfText(index_text).exc # ""
       \/ \A k \in 1..Len(Eval(mask_text).v.x) :
             \/ Eval(mask_text).v.x[k][1].t # "int"
             \/ Eval(mask_text).v.x[k][1].x # IntOfText(index_text).v.x

\* run_downstream did not call the pipeline and no image reached output_image.
NoInpainting ==
    /\ ~last.r.pipe_called
    /\ last.r.out = None
    /\ output_image = last.out_before

IsMaskTable(v) ==
    /\ v.t = "dict"
    /\ \A k \in 1..Len(v.x) :
          /\ v.x[k][1].t = "int"
          /\ v.x[k][2].t = "dict"
          /\ GetItem(v.x[k][2], PyStr("mask")).exc = ""
          /\ GetItem(GetItem(v.x[k][2], PyStr("mask")).v, PyInt(0)).exc = ""
          /\ IsGridList(GetItem(GetItem(v.x[k][2], PyStr("mask")).v, PyInt(0)).v)
          /\ GetItem(v.x[k][2], PyStr("polygon")).exc = ""
          /\ GetItem(v.x[k][2], PyStr("polygon")).v.t = "list"

Malformed(mask_text) ==
    \/ Eval(mask_text).exc # ""
    \/ Eval(mask_text).executed
    \/ ~IsMaskTable(Eval(mask_text).v)

\* C3: run_downstream given a malformed mask table text rejects it with
\* MalformedMaskTableError and does not execute the text.
C3_MalformedRejected ==
    (last.op = "B" /\ Malformed(mask_results)) =>
        (last.r.exc = "MalformedMaskTableError" /\ ~last.r.executed)

\* C4: after a successful run_mmocr_sam there is one mask per detected
\* region, the table's keys are 0..n-1 for the n detected regions, entry i
\* holds region i's mask and polygon, line i of the summary holds region i's
\* text, and rec_texts is as long as det_polygons.
C4_IndexAligned ==
    (last.op = "A" /\ last.exc = "") =>
        LET n == Len(a_run.det.det_polygons)
        IN /\ Len(a_run.masks) = n
           /\ Len(a_run.det.rec_texts) = n
           /\ Len(a_run.outputs.x) = n
           /\ \A k \in 1..n :
                 a_run.outputs.x[k] =
                     TableEntry(k - 1, a_run.masks[k],
                                ClosedPolygon(a_run.det.det_polygons[k]))
           /\ sam_results = OutputStr(Words(n), n)

\* The indices of a table.
Indices(tbl) == {tbl.x[k][1].x : k \in 1..Len(tbl.x)}

Field(tbl, idx, name) == GetItem(GetItem(tbl, PyInt(idx)).v, PyStr(name)).v

\* Two tables have the same indices and, index by index, masks of the same
\* dimensions with the same booleans and polygons with the same points in the
\* same order.
SameTable(a, b) ==
    /\ a.t = "dict" /\ b.t = "dict"
    /\ \A k \in 1..Len(b.x) : b.x[k][1].t = "int"
    /\ Indices(a) = Indices(b)
    /\ \A i \in Indices(a) :
          /\ Field(a, i, "mask") = Field(b, i, "mask")
          /\ Field(a, i, "polygon") = Field(b, i, "polygon")

\* C5: while mask_results holds what run_mmocr_sam returned, evaluating the
\* text gives back the table the handler built, and that is the table
\* run_downstream works on.
C5_RoundTrip ==
    fresh =>
        /\ Eval(mask_results).exc = ""
        /\ SameTable(a_run.outputs, Eval(mask_results).v)
        /\ last.op = "B" => SameTable(a_run.outputs, last.r.table)

\* run_downstream used a table of two regions, straight from run_mmocr_sam,
\* whose selected mask holds both values.
C5_Witness ==
    /\ fresh
    /\ StageBDone
    /\ Len(a_run.outputs.x) >= 2
    /\ \E y \in 1..Rows(last.r.mask) : \E x \in 1..Cols(last.r.mask) :
          last.r.mask[y][x] = 1
    /\ \E y \in 1..Rows(last.r.mask) : \E x \in 1..Cols(last.r.mask) :
          last.r.mask[y][x] = 0

\* C6: the image run_downstream composites onto is the uploaded input image,
\* which carries no overlay, and so neither does a Stage B output.
C6_OriginalBase ==
    last.op = "B" =>
        /\ last.img = input_image
        /\ last.img.t = "ndarray" => last.img.x.marks = <<>>
        /\ last.r.exc = "" => output_image.x.marks = <<>>

\* run_downstream returned an image while an annotated preview was on display.
C6_Witness ==
    /\ StageBDone
    /\ last.out_before.t = "ndarray"
    /\ last.out_before.x.marks # <<>>

\* C7: in every interleaving of two run_mmocr_sam invocations, the masks an
\* invocation holds were predicted against its own image, and the preview it
\* returns is the one it would return running alone.
C7_Isolated ==
    \A p \in Procs :
        /\ pc[p] \in {"figure", "imshow", "loop", "close", "done"} =>
              loc[p].against = loc[p].img
        /\ pc[p] \in {"close", "done"} =>
              loc[p].preview =
                  RunMmocrSam(loc[p].img, loc[p].det, "box", <<>>, p).preview

\* C8: the image a successful run_downstream returns is decided by its image,
\* its mask and its prompt alone: it is the one the same call returns in a
\* freshly started process, whatever calls came before.
C8_Deterministic ==
    StageBDone =>
        output_image = Inpaint(last.img, last.r.mask, prompt, DefaultGenerator).out

\* run_downstream returned an image after an earlier run_downstream had used
\* the generator.
C8_Witness ==
    /\ StageBDone
    /\ last.gen_before.seeded
    /\ last.gen_before.draws > 0

\* C9: whenever run_downstream works on a table, that table was produced by a
\* run_mmocr_sam on the image that is the input image now.
C9_TableOfCurrentImage ==
    StageBDone => (fresh /\ a_run.img = last.img)

\* C10: wherever the selected mask is set, each channel of the composite is
\* (original + generated patch) mod 256, and it differs from the original
\* exactly when the patch's channel is not zero.  The patch is
\* masked_diff_result, the generated image as line 153 adds it; on an image
\* of the pipeline's working size it is the pipeline's output itself.
C10_WrapAround ==
    (StageBDone /\ SameShape(last.r.mask, last.img.x.pix)) =>
        \A y \in 1..Rows(last.r.mask) : \A x \in 1..Cols(last.r.mask) :
            last.r.mask[y][x] = 1 =>
                \A c \in 1..3 :
                    LET before == CvtColor(last.img.x.pix)[y][x][c]
                        after == CvtColor(output_image.x.pix)[y][x][c]
                        added == last.r.patch[y][x][c]
                    IN /\ after = (before + added) % 256
                       /\ (after # before) <=> (added # 0)
                       /\ (Rows(last.r.mask) = WorkSize /\ Cols(last.r.mask) = WorkSize)
                             => added = Inpaint(last.img, last.r.mask, prompt,
                                                 last.gen_before).diff[y][x][c]

\* A channel inside the mask whose sum passed 255.
C10_Witness ==
    /\ StageBDone
    /\ SameShape(last.r.mask, last.img.x.pix)
    /\ \E y \in 1..Rows(last.r.mask) : \E x \in 1..Cols(last.r.mask) :
          /\ last.r.mask[y][x] = 1
          /\ \E c \in 1..3 :
                CvtColor(last.img.x.pix)[y][x][c] + last.r.patch[y][x][c] > 255

=============================================================================
